---- MODULE Spec2Model ----
(***************************************************************************)
(* Model of Mesos/utils/verify-review-requests.py: main() fetches the      *)
(* pending review requests, selects those needing verification, and        *)
(* verify_reviews() writes them to a file or triggers gearman jobs.        *)
(* Strings the script splits, strips, joins or formats are sequences of    *)
(* one-character strings.                                                  *)
(***************************************************************************)
EXTENDS Integers, Sequences, FiniteSets, TLC

VARIABLES
    parameters,       \* the argparse namespace returned by parse_parameters()
    tracker,          \* Review Board: the pending requests, each with how the handler answers
    file,             \* the file at parameters.out_file: content, times opened for writing
    gearman,          \* batch calls received by the gearman client, in order
    calls,            \* calls made to the ReviewBoardHandler, in order
    pc,               \* position of main()
    error,            \* the exception that ended the run, "none" otherwise
    review_requests,  \* main: the ids of handler.api(...)["review_requests"]
    idx,              \* main: position of the for loop in reversed(review_requests)
    num_reviews,      \* main: num_reviews
    review_ids        \* main: review_ids

vars == <<parameters, tracker, file, gearman, calls, pc, error,
          review_requests, idx, num_reviews, review_ids>>

----------------------------------------------------------------------------
\* Bounds of the model.

MaxReviews == 2      \* longest list of review requests
MaxCap == 2          \* largest --reviews cap
MaxServersLen == 4   \* longest --servers string
MaxParams == 2       \* most members of the --params JSON object

DEFAULT_GEARMAN_PORT == 4730

ReviewIdSet == {5, 12}
ServerChars == {"a", "9", ":", ",", " "}
Whitespace == {" ", "\n", "\t"}

----------------------------------------------------------------------------
\* Python string operations.

Digits == <<"0", "1", "2", "3", "4", "5", "6", "7", "8", "9">>

\* str(n) of a non-negative integer
RECURSIVE Str(_)
Str(n) == IF n < 10 THEN <<Digits[n + 1]>>
          ELSE Str(n \div 10) \o <<Digits[(n % 10) + 1]>>

\* s.split(sep) for a one-character separator
RECURSIVE Split(_, _)
Split(s, sep) ==
    IF \A i \in 1..Len(s) : s[i] # sep THEN <<s>>
    ELSE LET i == CHOOSE k \in 1..Len(s) :
                      s[k] = sep /\ \A j \in 1..(k - 1) : s[j] # sep
         IN <<SubSeq(s, 1, i - 1)>> \o Split(SubSeq(s, i + 1, Len(s)), sep)

\* s.strip()
RECURSIVE Strip(_)
Strip(s) ==
    IF s = <<>> THEN s
    ELSE IF s[1] \in Whitespace THEN Strip(Tail(s))
    ELSE IF s[Len(s)] \in Whitespace THEN Strip(SubSeq(s, 1, Len(s) - 1))
    ELSE s

\* sep.join(list)
RECURSIVE Join(_, _)
Join(sep, list) ==
    IF list = <<>> THEN <<>>
    ELSE IF Len(list) = 1 THEN list[1]
    ELSE list[1] \o sep \o Join(sep, Tail(list))

NotReversed(list) == list

\* reversed(list)
Reversed(list) == [i \in 1..Len(list) |-> list[Len(list) + 1 - i]]

\* All sequences over S of length at most n
SeqUpTo(S, n) == UNION {[1..k -> S] : k \in 0..n}

----------------------------------------------------------------------------
\* JSON texts given on the command line, and dicts.
\* A text is [kind, members]: kind "object" with its members in the order
\* written, "number" for a JSON value that is not a container, "malformed"
\* for a string that is not JSON; None is kind "none".

None == [kind |-> "none", members |-> <<>>]
JsonObject(members) == [kind |-> "object", members |-> members]
JsonNumber == [kind |-> "number", members |-> <<>>]
Malformed == [kind |-> "malformed", members |-> <<>>]

\* json.loads(text) raises ValueError
JsonLoadsRaises(text) == text.kind = "malformed"

\* json.loads(text) of an object: a repeated key keeps its last value
JsonLoads(text) ==
    LET m == text.members
        keys == {m[i][1] : i \in 1..Len(m)}
        Last(k) == CHOOSE i \in 1..Len(m) :
                       m[i][1] = k /\ \A j \in (i + 1)..Len(m) : m[j][1] # k
    IN [k \in keys |-> m[Last(k)][2]]

KeyOrder == <<"EXTRA", "OFFLINE_NODE_WHEN_COMPLETE", "REVIEW_ID">>

\* json.dumps(d): the members of d, one per key
RECURSIVE DumpFrom(_, _)
DumpFrom(d, i) ==
    IF i > Len(KeyOrder) THEN <<>>
    ELSE (IF KeyOrder[i] \in DOMAIN d THEN <<<<KeyOrder[i], d[KeyOrder[i]]>>>> ELSE <<>>)
         \o DumpFrom(d, i + 1)
JsonDumps(d) == JsonObject(DumpFrom(d, 1))

DictUpdateKeepsOld(d, other) ==
    [k \in (DOMAIN d) \cup (DOMAIN other) |->
        IF k \in DOMAIN d THEN d[k] ELSE other[k]]

\* d.update(other), as the resulting dict
DictUpdate(d, other) ==
    [k \in (DOMAIN d) \cup (DOMAIN other) |->
        IF k \in DOMAIN other THEN other[k] ELSE d[k]]

\* hasattr(parameters, name)
HasAttr(p, name) == name \in DOMAIN p

----------------------------------------------------------------------------
\* verify_reviews(review_ids, parameters)

FALSE_STR == <<"f", "a", "l", "s", "e">>
BUILD_PREFIX == <<"b", "u", "i", "l", "d", ":">>

\* lines 94-100: one entry of --servers as "%s:%s" % (address, port)
NormalizeServer(server) ==
    LET stripped == Strip(server)
        s_split == Split(stripped, ":")
        address == s_split[1]
        port == IF Len(s_split) = 2 THEN s_split[2] ELSE Str(DEFAULT_GEARMAN_PORT)
    IN address \o <<":">> \o port

\* lines 91-100: the servers list
NormalizeServers(text) ==
    LET entries == Split(text, ",")
    IN [i \in 1..Len(entries) |-> NormalizeServer(entries[i])]

\* lines 109-114: job_params of one review id
JobParams(review_id, params) ==
    LET base == [REVIEW_ID |-> review_id, OFFLINE_NODE_WHEN_COMPLETE |-> FALSE_STR]
    IN IF params # None THEN DictUpdate(base, JsonLoads(params)) ELSE base

\* line 114 raises: json.loads fails, or dict.update is given a non-container
JobParamsRaises(params) ==
    params # None /\ (JsonLoadsRaises(params) \/ params.kind = "number")

JobParamsError(params) ==
    IF JsonLoadsRaises(params) THEN "ValueError" ELSE "TypeError"

\* line 106
TaskName(job) == BUILD_PREFIX \o job

\* lines 105-119: the jobs list; unique is the i-th token uuid4 hands out
Jobs(ids, p) ==
    [i \in 1..Len(ids) |->
        [unique |-> i,
         task |-> TaskName(p.job),
         data |-> JsonDumps(JobParams(ids[i], p.params))]]

FileContentLines(ids) == Join(<<>>, [i \in 1..Len(ids) |-> ids[i] \o <<"\n">>])

\* line 89: what is written to the out file
FileContent(ids) == Join(<<"\n">>, ids)

PropagatesNothing(result) == FALSE

\* An exception nothing catches ends the run: no try block surrounds
\* lines 114, 120-121, 131, 137 and 149
Propagates(result) == result # "ok"

\* lines 83-121
verify_reviews ==
    /\ pc = "verify"
    /\ IF HasAttr(parameters, "out_file")
       THEN /\ file' = [content |-> FileContent(review_ids), writes |-> file.writes + 1]
            /\ pc' = "done"
            /\ UNCHANGED <<gearman, error>>
       ELSE IF Len(review_ids) = 0
       THEN /\ pc' = "done"
            /\ UNCHANGED <<file, gearman, error>>
       ELSE IF JobParamsRaises(parameters.params)
               /\ Propagates(JobParamsError(parameters.params))
       THEN /\ pc' = "failed"
            /\ error' = JobParamsError(parameters.params)
            /\ UNCHANGED <<file, gearman>>
       ELSE \E result \in {"ok", "NetworkError"} :
            /\ gearman' = Append(gearman,
                   [servers |-> NormalizeServers(parameters.servers),
                    jobs |-> Jobs(review_ids, parameters),
                    result |-> result])
            /\ pc' = IF Propagates(result) THEN "failed" ELSE "done"
            /\ error' = IF Propagates(result) THEN result ELSE error
            /\ UNCHANGED file
    /\ UNCHANGED <<parameters, tracker, calls, review_requests, idx,
                   num_reviews, review_ids>>

----------------------------------------------------------------------------
\* Inputs of verify_reviews taken on their own.

OUT_FILE == <<"o">>
JOB == <<"j">>
PriorContents == {<<>>, <<"7", "\n", "7">>}

ParamKeys == {"EXTRA", "OFFLINE_NODE_WHEN_COMPLETE", "REVIEW_ID"}
ParamValues == {<<"x">>, <<"t", "r", "u", "e">>}
ParamTexts ==
    {None, Malformed, JsonNumber}
    \cup {JsonObject(m) : m \in SeqUpTo(ParamKeys \X ParamValues, MaxParams)}

ServerTexts == SeqUpTo(ServerChars, MaxServersLen)

QUERY == JsonObject(<<>>)
SERVERS == <<"a", ",", "a", ":", "9">>

FileParameters(cap, query) ==
    [reviews |-> cap, query |-> query, out_file |-> OUT_FILE]
GearmanParameters(cap, query, servers, params) ==
    [reviews |-> cap, query |-> query, servers |-> servers, job |-> JOB,
     params |-> params]

IdLists == SeqUpTo({Str(n) : n \in ReviewIdSet \cup {9}}, MaxReviews)

InitVerify ==
    /\ parameters \in
          {FileParameters(-1, QUERY)}
          \cup {GearmanParameters(-1, QUERY, s, None) : s \in ServerTexts}
          \cup {GearmanParameters(-1, QUERY, SERVERS, p) : p \in ParamTexts}
    /\ review_ids \in IdLists
    /\ file \in [content : PriorContents, writes : {0}]
    /\ (HasAttr(parameters, "out_file") \/ file.content = <<>>)
    /\ tracker = <<>>
    /\ gearman = <<>>
    /\ calls = <<>>
    /\ pc = "verify"
    /\ error = "none"
    /\ review_requests = <<>>
    /\ idx = 1
    /\ num_reviews = Len(review_ids)

NextVerify == verify_reviews

SpecVerify == InitVerify /\ [][NextVerify]_vars

----------------------------------------------------------------------------
\* The ReviewBoardHandler of common.py, seen from main(): how it answers for
\* one review request.

Behaviours == {"no", "yes",
               "nv_ReviewError", "nv_NetworkError", "nv_KeyError",
               "gri_ReviewError", "gri_NetworkError", "gri_KeyError"}

\* handler.needs_verification(review_request): a return value or the exception raised
NeedsVerificationResult(b) ==
    CASE b = "no" -> "False"
      [] b = "nv_ReviewError" -> "ReviewError"
      [] b = "nv_NetworkError" -> "NetworkError"
      [] b = "nv_KeyError" -> "KeyError"
      [] OTHER -> "True"

\* handler.get_review_ids(review_request): returns, or the exception raised
GetReviewIdsResult(b) ==
    CASE b = "gri_ReviewError" -> "ReviewError"
      [] b = "gri_NetworkError" -> "NetworkError"
      [] b = "gri_KeyError" -> "KeyError"
      [] OTHER -> "ok"

Call(op, review, result) == [op |-> op, review |-> review, result |-> result]

----------------------------------------------------------------------------
\* main()

\* line 138: the review request the for loop is at, as its position in the
\* fetched list
Current == Reversed([i \in 1..Len(review_requests) |-> i])[idx]

UnderCapOffByOne == parameters.reviews = -1 \/ num_reviews <= parameters.reviews

\* line 139
UnderCap == parameters.reviews = -1 \/ num_reviews < parameters.reviews

ExceptClauseNoReviewError(result) ==
    IF result \in {"ReviewError", "NetworkError", "KeyError"} THEN "skip" ELSE "none"

ExceptClauseNoException(result) ==
    IF result = "ReviewError" THEN "post" ELSE "none"

\* lines 146-155: what the try statement does with the outcome of a handler
\* call: "post" in the except ReviewError clause, "skip" in the except
\* Exception clause (needs_verification = False), "none" when nothing is raised
ExceptClause(result) ==
    IF result = "ReviewError" THEN "post"
    ELSE IF result \in {"NetworkError", "KeyError"} THEN "skip"
    ELSE "none"

\* lines 158-159
Record ==
    /\ review_ids' = Append(review_ids, Str(review_requests[Current]))
    /\ num_reviews' = num_reviews + 1

\* continue, or the end of the loop body
NextReview == pc' = "loop" /\ idx' = idx + 1

\* lines 126-134: json.loads(parameters.query) and the handler's construction
ParseQuery ==
    /\ pc = "start"
    /\ IF JsonLoadsRaises(parameters.query) /\ Propagates("ValueError")
       THEN pc' = "failed" /\ error' = "ValueError"
       ELSE pc' = "api" /\ UNCHANGED error
    /\ UNCHANGED <<parameters, tracker, file, gearman, calls, review_requests,
                   idx, num_reviews, review_ids>>

\* line 137: handler.api(review_requests_url)
FetchReviews ==
    /\ pc = "api"
    /\ \E result \in {"ok", "NetworkError"} :
        /\ calls' = Append(calls, Call("api", 0, result))
        /\ IF Propagates(result)
           THEN /\ pc' = "failed"
                /\ error' = result
                /\ UNCHANGED review_requests
           ELSE /\ review_requests' =
                      IF result = "ok" THEN [i \in 1..Len(tracker) |-> tracker[i].id]
                      ELSE <<>>
                /\ pc' = "loop"
                /\ UNCHANGED error
    /\ idx' = 1
    /\ UNCHANGED <<parameters, tracker, file, gearman, num_reviews, review_ids>>

\* lines 138-139: an iteration whose cap test fails does nothing
SkipOverCap ==
    /\ pc = "loop"
    /\ idx <= Len(review_requests)
    /\ ~UnderCap
    /\ idx' = idx + 1
    /\ UNCHANGED <<parameters, tracker, file, gearman, calls, pc, error,
                   review_requests, num_reviews, review_ids>>

\* lines 139-143, 146, 151-157: handler.needs_verification(review_request)
CallNeedsVerification ==
    /\ pc = "loop"
    /\ idx <= Len(review_requests)
    /\ UnderCap
    /\ LET result == NeedsVerificationResult(tracker[Current].behaviour)
       IN /\ calls' = Append(calls, Call("needs_verification", Current, result))
          /\ CASE ExceptClause(result) = "post" -> pc' = "post_review" /\ UNCHANGED idx
               [] ExceptClause(result) = "skip" -> NextReview
               [] OTHER -> IF result = "True"
                           THEN pc' = "get_review_ids" /\ UNCHANGED idx
                           ELSE NextReview
          /\ UNCHANGED <<review_ids, num_reviews>>
    /\ UNCHANGED <<parameters, tracker, file, gearman, error, review_requests>>

\* lines 145-146, 151-159: handler.get_review_ids(review_request)
CallGetReviewIds ==
    /\ pc = "get_review_ids"
    /\ LET result == GetReviewIdsResult(tracker[Current].behaviour)
       IN /\ calls' = Append(calls, Call("get_review_ids", Current, result))
          /\ CASE ExceptClause(result) = "post" ->
                    pc' = "post_review" /\ UNCHANGED <<idx, review_ids, num_reviews>>
               [] ExceptClause(result) = "skip" ->
                    NextReview /\ UNCHANGED <<review_ids, num_reviews>>
               [] OTHER -> NextReview /\ Record
    /\ UNCHANGED <<parameters, tracker, file, gearman, error, review_requests>>

\* lines 147-150: handler.post_review(review_request, message)
CallPostReview ==
    /\ pc = "post_review"
    /\ \E result \in {"ok", "NetworkError"} :
        /\ calls' = Append(calls, Call("post_review", Current, result))
        /\ IF Propagates(result)
           THEN pc' = "failed" /\ error' = result /\ UNCHANGED idx
           ELSE NextReview /\ UNCHANGED error
    /\ UNCHANGED <<parameters, tracker, file, gearman, review_requests,
                   num_reviews, review_ids>>

\* line 160: the loop is exhausted, main calls verify_reviews
LoopEnd ==
    /\ pc = "loop"
    /\ idx > Len(review_requests)
    /\ pc' = "verify"
    /\ UNCHANGED <<parameters, tracker, file, gearman, calls, error,
                   review_requests, idx, num_reviews, review_ids>>

Caps == (-2)..MaxCap

Init ==
    /\ \E cap \in Caps, query \in {QUERY, Malformed} :
          parameters \in
             {FileParameters(cap, query)}
             \cup {GearmanParameters(cap, query, SERVERS, p) :
                      p \in {None, Malformed, JsonObject(<<<<"REVIEW_ID", <<"x">>>>>>)}}
    /\ tracker \in SeqUpTo([id : ReviewIdSet, behaviour : Behaviours], MaxReviews)
    /\ file \in [content : PriorContents, writes : {0}]
    /\ (HasAttr(parameters, "out_file") \/ file.content = <<>>)
    /\ gearman = <<>>
    /\ calls = <<>>
    /\ pc = "start"
    /\ error = "none"
    /\ review_requests = <<>>
    /\ idx = 1
    /\ num_reviews = 0
    /\ review_ids = <<>>

Next ==
    \/ ParseQuery
    \/ FetchReviews
    \/ SkipOverCap
    \/ CallNeedsVerification
    \/ CallGetReviewIds
    \/ CallPostReview
    \/ LoopEnd
    \/ verify_reviews

Spec == Init /\ [][Next]_vars

----------------------------------------------------------------------------
\* Properties of main()

Cap == parameters.reviews
Ended == pc \in {"done", "failed"}
HandlerOps == {"needs_verification", "get_review_ids", "post_review"}

\* Indexes of the calls op made for the review at position i of the fetch
CallsOf(op, i) == {k \in DOMAIN calls : calls[k].op = op /\ calls[k].review = i}

\* The handler reports that review i needs verification and resolves its chain
Qualifies(i) ==
    /\ NeedsVerificationResult(tracker[i].behaviour) = "True"
    /\ GetReviewIdsResult(tracker[i].behaviour) = "ok"

Take(s, k) == IF k = -1 \/ k >= Len(s) THEN s ELSE SubSeq(s, 1, k)

ExpectedSelection ==
    LET n == Len(tracker)
        walk == [i \in 1..n |-> n + 1 - i]
        kept == SelectSeq(walk, Qualifies)
        firstK == Take(kept, Cap)
    IN [j \in 1..Len(firstK) |-> Str(tracker[firstK[j]].id)]

\* C1: the identifiers main() passes to verify_reviews are the reviews that
\* qualify (needs_verification true, get_review_ids raising nothing), walked in
\* reverse of fetch order, cut to the first k for a cap k >= 0, all for cap -1.
C1_Selection ==
    (pc = "verify" /\ Cap >= -1) => review_ids = ExpectedSelection

C1_Witness ==
    /\ pc = "verify"
    /\ Cap = 1
    /\ Len(tracker) = 2
    /\ Qualifies(1) /\ Qualifies(2)
    /\ tracker[1].id # tracker[2].id
    /\ review_ids = <<Str(tracker[2].id)>>

RaisedReviewError(i) ==
    \E k \in DOMAIN calls :
        /\ calls[k].review = i
        /\ calls[k].op \in {"needs_verification", "get_review_ids"}
        /\ calls[k].result = "ReviewError"

ResolvedCalls == SelectSeq(calls, LAMBDA c : c.op = "get_review_ids" /\ c.result = "ok")

\* C2: a review for which the handler raised ReviewError gets exactly one
\* post_review call (made right after the error), no other review gets any, and
\* the dispatched list holds only the reviews whose get_review_ids returned, so
\* a review that raised ReviewError is not in it.
C2_CycleReviews ==
    /\ \A i \in 1..Len(tracker) :
          LET posts == Cardinality(CallsOf("post_review", i))
          IN IF RaisedReviewError(i)
             THEN posts = (IF pc = "post_review" /\ Current = i THEN 0 ELSE 1)
             ELSE posts = 0
    /\ review_ids = [j \in 1..Len(ResolvedCalls) |->
                        Str(tracker[ResolvedCalls[j].review].id)]
    /\ \A j \in 1..Len(ResolvedCalls) : ~RaisedReviewError(ResolvedCalls[j].review)

C2_Witness ==
    /\ pc = "done"
    /\ \E i \in 1..Len(tracker) :
          /\ CallsOf("get_review_ids", i) # {}
          /\ RaisedReviewError(i)
          /\ Cardinality(CallsOf("post_review", i)) = 1
    /\ Len(review_ids) = 1

\* C7: whenever --query or --params is not valid JSON the run fails, and no
\* call to the tracker, no file write and no job submission is ever made.
C7_MalformedJsonFailsAtStartup ==
    (\/ JsonLoadsRaises(parameters.query)
     \/ (HasAttr(parameters, "params") /\ JsonLoadsRaises(parameters.params)))
    => /\ calls = <<>>
       /\ gearman = <<>>
       /\ file.writes = 0
       /\ pc # "done"

RaisedOther(c) ==
    /\ c.op \in {"needs_verification", "get_review_ids"}
    /\ c.result \in {"NetworkError", "KeyError"}

Appended == IF Len(calls') = Len(calls) + 1 THEN {calls'[Len(calls')]} ELSE {}

\* C8: when needs_verification or get_review_ids raises an exception other
\* than ReviewError, the step adds nothing to the dispatched list or the count,
\* writes and submits nothing, does not end the run and moves the loop to the
\* next review; no comment is ever posted for that review; when the loop is
\* over every review was examined unless the cap stopped it; and nothing runs
\* after verify_reviews, which therefore runs at most once.
C8_OtherExceptionSkips ==
    /\ [][\A c \in Appended :
            /\ RaisedOther(c) =>
                  /\ review_ids' = review_ids
                  /\ num_reviews' = num_reviews
                  /\ pc' = "loop" /\ idx' = idx + 1
                  /\ error' = "none"
                  /\ UNCHANGED <<file, gearman>>
            /\ c.op = "post_review" =>
                  \A k \in DOMAIN calls :
                      calls[k].review = c.review => ~RaisedOther(calls[k])]_vars
    /\ [](pc = "verify" =>
            \A i \in 1..Len(tracker) :
                CallsOf("needs_verification", i) # {} \/ ~UnderCap)
    /\ [][~Ended]_vars

C8_Witness ==
    /\ pc = "done"
    /\ Len(tracker) = 2
    /\ \E k \in DOMAIN calls :
          calls[k] = Call("get_review_ids", 2, "KeyError")
    /\ review_ids = <<Str(tracker[1].id)>>

\* C9 as stated: every failing call to the tracker, needs_verification and
\* get_review_ids included, and a failing batch submission end the run with
\* that error, nothing written or submitted after a failing tracker call.
C9_EveryNetworkFailureIsFatal ==
    /\ \A k \in DOMAIN calls :
          calls[k].result = "NetworkError" =>
              /\ k = Len(calls)
              /\ pc = "failed" /\ error = "NetworkError"
              /\ gearman = <<>> /\ file.writes = 0
    /\ \A g \in DOMAIN gearman :
          gearman[g].result = "NetworkError" =>
              pc = "failed" /\ error = "NetworkError"

\* C9 amended: a failing handler.api or post_review call, or a failing batch
\* submission, ends the run with that error (after a failing tracker call
\* nothing is written or submitted); a network failure of needs_verification
\* or get_review_ids is caught and does not end the run.
C9_UncaughtNetworkFailureIsFatal ==
    /\ \A k \in DOMAIN calls :
          calls[k].result = "NetworkError" =>
              IF calls[k].op \in {"api", "post_review"}
              THEN /\ k = Len(calls)
                   /\ pc = "failed" /\ error = "NetworkError"
                   /\ gearman = <<>> /\ file.writes = 0
              ELSE k = Len(calls) =>
                      \/ pc \in {"loop", "verify", "done"}
                      \/ /\ pc = "failed"
                         /\ gearman # <<>> \/ error \in {"ValueError", "TypeError"}
    /\ \A g \in DOMAIN gearman :
          gearman[g].result = "NetworkError" =>
              pc = "failed" /\ error = "NetworkError"

C9_Witness ==
    /\ pc = "failed"
    /\ error = "NetworkError"
    /\ Len(calls) > 0
    /\ calls[Len(calls)].op = "post_review"
    /\ \E k \in DOMAIN calls :
          calls[k].op = "needs_verification" /\ calls[k].result = "NetworkError"

RecordedBefore(k) ==
    Cardinality({j \in 1..(k - 1) :
                    calls[j].op = "get_review_ids" /\ calls[j].result = "ok"})

\* C10: with a cap k >= 0 every needs_verification, get_review_ids and
\* post_review call is made while fewer than k identifiers are recorded (none
\* at all for cap 0), and every get_review_ids call directly follows a
\* needs_verification call for the same review that returned true.
C10_StopsAtCap ==
    /\ num_reviews = RecordedBefore(Len(calls) + 1)
    /\ \A k \in DOMAIN calls :
          /\ (Cap >= 0 /\ calls[k].op \in HandlerOps) => RecordedBefore(k) < Cap
          /\ calls[k].op = "get_review_ids" =>
                /\ k > 1
                /\ calls[k - 1] = Call("needs_verification", calls[k].review, "True")

C10_Witness ==
    /\ pc = "verify"
    /\ Cap = 1
    /\ Len(tracker) = 2
    /\ num_reviews = 1
    /\ CallsOf("get_review_ids", 2) # {}
    /\ \A k \in DOMAIN calls : calls[k].review # 1

----------------------------------------------------------------------------
\* Properties of verify_reviews()

UsesGearman == ~HasAttr(parameters, "out_file")
PORT_4730 == <<"4", "7", "3", "0">>

\* C3: with the gearman plug-in an empty list triggers nothing, and a
\* non-empty list makes exactly one batch call with one job per identifier, in
\* order, each with task "build:<job>".
C3_OneBatchPerRun ==
    (UsesGearman /\ Ended) =>
        IF review_ids = <<>>
        THEN gearman = <<>>
        ELSE /\ Len(gearman) = 1
             /\ Len(gearman[1].jobs) = Len(review_ids)
             /\ \A i \in 1..Len(review_ids) :
                   gearman[1].jobs[i].task = BUILD_PREFIX \o parameters.job

\* The value the decoded data of a job gives for key, <<>> when absent
DataValue(data, key) ==
    LET hits == {i \in 1..Len(data.members) : data.members[i][1] = key}
    IN IF Cardinality(hits) = 1 THEN data.members[CHOOSE i \in hits : TRUE][2]
       ELSE <<>>

DataKeys(data) == {data.members[i][1] : i \in 1..Len(data.members)}

\* C4: the parameters of every submitted job are the base parameters
\* (REVIEW_ID the identifier, OFFLINE_NODE_WHEN_COMPLETE "false") overlaid by
\* the --params mapping: each caller key has the caller's value, each base key
\* the caller does not give keeps its base value, and no other key is present.
C4_JobParameters ==
    \A g \in DOMAIN gearman :
      \A i \in DOMAIN gearman[g].jobs :
        LET data == gearman[g].jobs[i].data
            m == parameters.params.members
            given == {m[j][1] : j \in 1..Len(m)}
        IN /\ Len(data.members) = Cardinality(DataKeys(data))
           /\ DataKeys(data) = {"REVIEW_ID", "OFFLINE_NODE_WHEN_COMPLETE"} \cup given
           /\ \A j \in 1..Len(m) :
                 (\A l \in (j + 1)..Len(m) : m[l][1] # m[j][1])
                    => DataValue(data, m[j][1]) = m[j][2]
           /\ "REVIEW_ID" \notin given => DataValue(data, "REVIEW_ID") = review_ids[i]
           /\ "OFFLINE_NODE_WHEN_COMPLETE" \notin given
                 => DataValue(data, "OFFLINE_NODE_WHEN_COMPLETE") = FALSE_STR

C4_Witness ==
    /\ pc = "done"
    /\ Len(gearman) = 1
    /\ parameters.params = JsonObject(<<<<"REVIEW_ID", <<"x">>>>, <<"EXTRA", <<"x">>>>>>)
    /\ Len(review_ids) = 2
    /\ DataValue(gearman[1].jobs[2].data, "REVIEW_ID") = <<"x">>

\* C5: every entry of --servers is normalized in order: an entry without a
\* port gets ":4730" appended, an entry with a port is kept as it is, and no
\* normalized entry ends in an empty port.
C5_ServersNormalized ==
    \A g \in DOMAIN gearman :
      LET entries == Split(parameters.servers, ",")
          servers == gearman[g].servers
      IN /\ Len(servers) = Len(entries)
         /\ \A i \in 1..Len(entries) :
               LET entry == Strip(entries[i])
                   givesPort == \E j \in 1..Len(entry) : entry[j] = ":"
               IN /\ servers[i] = IF givesPort THEN entry
                                  ELSE entry \o <<":">> \o PORT_4730
                  /\ servers[i][Len(servers[i])] # ":"

\* C6: with the file plug-in the out file holds exactly the identifiers
\* joined by single newlines, nothing of its previous content and no trailing
\* newline (an empty file for the empty list), and nothing is submitted.
C6_FileContent ==
    (pc = "done" /\ HasAttr(parameters, "out_file")) =>
        /\ gearman = <<>>
        /\ file.writes = 1
        /\ IF review_ids = <<>> THEN file.content = <<>>
           ELSE /\ Split(file.content, "\n") = review_ids
                /\ file.content[Len(file.content)] # "\n"

C6_Witness ==
    /\ pc = "done"
    /\ HasAttr(parameters, "out_file")
    /\ review_ids = <<Str(5), Str(9)>>
    /\ file = [content |-> <<"5", "\n", "9">>, writes |-> 1]

====
